---- MODULE Spec2Model ----
(***************************************************************************)
(* Monte Carlo pricing of exotic options, "Exotic Options.ipynb".          *)
(*                                                                         *)
(* The notebook is a sequence of code cells sharing one kernel namespace.  *)
(* Every global the cells assign is a variable here, under its own name;   *)
(* `namespace` is the set of names bound so far (a global that is not in   *)
(* it holds a placeholder that no cell reads).                             *)
(*                                                                         *)
(* Numbers.  A float is modelled by an exact extended rational             *)
(* [n |-> numerator, d |-> denominator]: d > 0 and gcd(n, d) = 1 for a     *)
(* finite value, d = 0 for the IEEE specials (n = 1: inf, n = -1: -inf,    *)
(* n = 0: nan).  Rounding error, underflow and overflow of float64 are     *)
(* outside the model.  np.exp is modelled by 2^(x/2) on the even integers, *)
(* which like np.exp is positive, increasing and turns sums into products, *)
(* and is rational there: rates and volatilities are even integers, and    *)
(* the step dt is 0 or 1 so that np.sqrt(dt) is exact.                     *)
(***************************************************************************)
EXTENDS Integers, Sequences, FiniteSets

(***************************************************************************)
(* Bounds of the model.                                                    *)
(***************************************************************************)
MaxSimulations == 2
MaxTimeSteps == 2

(***************************************************************************)
(* Extended rational arithmetic (the float64 operations the cells use).    *)
(***************************************************************************)
Abs(k) == IF k < 0 THEN -k ELSE k
Sign(k) == IF k < 0 THEN -1 ELSE IF k > 0 THEN 1 ELSE 0

RECURSIVE GCD(_, _)
GCD(a, b) == IF b = 0 THEN a ELSE GCD(b, a % b)

\* the canonical form of n/d
Norm(n, d) ==
    IF d = 0 THEN [n |-> Sign(n), d |-> 0]
    ELSE LET g == GCD(Abs(n), Abs(d))
         IN  [n |-> (Sign(d) * n) \div g, d |-> Abs(d) \div g]

R(k) == [n |-> k, d |-> 1]
Zero == R(0)
NaN == [n |-> 0, d |-> 0]
Inf == [n |-> 1, d |-> 0]

IsNaN(x) == x.d = 0 /\ x.n = 0
IsInf(x) == x.d = 0 /\ x.n # 0
IsFinite(x) == x.d > 0

Neg(x) == [n |-> -x.n, d |-> x.d]

Mul(x, y) == Norm(x.n * y.n, x.d * y.d)

Add(x, y) ==
    IF IsFinite(x) /\ IsFinite(y)
    THEN LET g == GCD(x.d, y.d)
         IN  Norm(x.n * (y.d \div g) + y.n * (x.d \div g), (x.d \div g) * y.d)
    ELSE IF IsNaN(x) \/ IsNaN(y) THEN NaN
    ELSE IF IsInf(x) /\ IsInf(y) THEN (IF x.n = y.n THEN x ELSE NaN)
    ELSE IF IsInf(x) THEN x ELSE y

Sub(x, y) == Add(x, Neg(y))

\* 1/y, with 1/0 = inf and 1/inf = 0
Inv(y) ==
    IF IsNaN(y) THEN NaN
    ELSE IF IsInf(y) THEN Zero
    ELSE IF y.n = 0 THEN Inf
    ELSE Norm(Sign(y.n) * y.d, Abs(y.n))

\* float division: x/0 is inf, -inf or nan and raises nothing
Div(x, y) == Mul(x, Inv(y))

\* x < y; false when either is nan
Lt(x, y) ==
    IF IsNaN(x) \/ IsNaN(y) THEN FALSE
    ELSE IF IsInf(x) /\ IsInf(y) THEN x.n < y.n
    ELSE IF IsInf(x) THEN x.n < 0
    ELSE IF IsInf(y) THEN y.n > 0
    ELSE x.n * y.d < y.n * x.d

Le(x, y) == ~IsNaN(x) /\ ~IsNaN(y) /\ ~Lt(y, x)

\* np.maximum(x, y): nan propagates
Maximum(x, y) ==
    IF IsNaN(x) \/ IsNaN(y) THEN NaN ELSE IF Lt(x, y) THEN y ELSE x

RECURSIVE Pow2(_)
Pow2(k) == IF k <= 0 THEN 1 ELSE 2 * Pow2(k - 1)

\* np.exp at the even integer k, modelled by 2^(k/2)
Exp(k) == IF k >= 0 THEN R(Pow2(k \div 2)) ELSE [n |-> 1, d |-> Pow2((-k) \div 2)]

\* the least c in lo..hi with c * c >= k, by bisection
RECURSIVE RootIn(_, _, _)
RootIn(k, lo, hi) ==
    IF lo >= hi THEN lo
    ELSE LET mid == (lo + hi) \div 2
         IN  IF mid * mid >= k THEN RootIn(k, lo, mid) ELSE RootIn(k, mid + 1, hi)

IntRoot(k) == RootIn(k, 0, IF k < 46340 THEN k ELSE 46340)

IsSquare(k) == IntRoot(k) * IntRoot(k) = k

\* np.sqrt: the exact root of a square, the surd [sqrt |-> x] otherwise
Sqrt(x) ==
    IF IsNaN(x) \/ Lt(x, Zero) THEN NaN
    ELSE IF IsInf(x) THEN Inf
    ELSE IF IsSquare(x.n) /\ IsSquare(x.d)
         THEN [n |-> IntRoot(x.n), d |-> IntRoot(x.d)]
         ELSE [sqrt |-> x]

(***************************************************************************)
(* numpy reductions.  A vector is a sequence, a matrix a sequence of rows. *)
(***************************************************************************)
RECURSIVE Sum(_)
Sum(v) == IF v = <<>> THEN Zero ELSE Add(Sum(SubSeq(v, 1, Len(v) - 1)), v[Len(v)])

RECURSIVE Prod(_)
Prod(v) == IF v = <<>> THEN R(1) ELSE Mul(Prod(SubSeq(v, 1, Len(v) - 1)), v[Len(v)])

\* np.mean: sum / count (nan for an empty vector)
Mean(v) == Div(Sum(v), R(Len(v)))

RECURSIVE Amax(_)
Amax(v) == IF Len(v) = 1 THEN v[1] ELSE Maximum(Amax(SubSeq(v, 1, Len(v) - 1)), v[Len(v)])

\* np.cumprod(v)
CumProd(v) == [j \in 1..Len(v) |-> Prod(SubSeq(v, 1, j))]

\* np.count_nonzero
CountNonzero(v) == Cardinality({i \in 1..Len(v) : v[i] # Zero})

\* payoffs[i][-1]
Last(row) == row[Len(row)]

(***************************************************************************)
(* The values the parameter lines of the first cell may hold, in model     *)
(* units.                                                                  *)
(***************************************************************************)
SpotPrices == {-8, 0, 8}
StrikePrices == {0, 6}
Rates == {0, 2}
Sigmas == {-2, 0, 2}
Maturities == 0..MaxTimeSteps
SimulationCounts == 0..MaxSimulations
TimeStepCounts == 0..MaxTimeSteps
\* the values a standard-normal draw takes in the model
NormalDraws == {-1, 1}
\* the values of Barrier_price
BarrierLevels == {4, 8}
\* the scores of the two percentileofscore calls
LowScore == 4
HighScore == 16

\* dt = Time / Time_steps is 0 or 1 (or the division raises)
OnGrid(T, M) == T = 0 \/ M = 0 \/ T = M

Cells == <<"simulate", "asian", "lookback", "barrier", "basket", "binary",
           "chooser", "range">>

VARIABLES
    run_all,      \* TRUE: "Run All", top to bottom; FALSE: cells run one by one
    pc,           \* run_all: the cell to run next, "done" or "error"
    error,        \* the exception the last executed cell raised, or "none"
    namespace,    \* the names of the globals bound so far
    spot_price, strike_price, Time, risk_free_rate, sigma, simulations,
    Time_steps,
    dt, random, ratio_matrix, prices,
    payoffs,
    Asian_Option_call_price, variance, standard_error,
    lookbackpayoffofcall, lookbackpayoffofput,
    Barrier_price, Barrier_rows, Barrier_total, Barrier_option_price,
    Basket_Option_price,
    binarypayoffs, binaryoption,
    sum1, sum2, chooser_option_price,
    percentile_of_95, percentile_of_105

params == <<spot_price, strike_price, Time, risk_free_rate, sigma, simulations,
            Time_steps>>
simvars == <<dt, random, ratio_matrix, prices>>
asianvars == <<Asian_Option_call_price, variance, standard_error>>
lookbackvars == <<lookbackpayoffofcall, lookbackpayoffofput>>
barriervars == <<Barrier_price, Barrier_rows, Barrier_total, Barrier_option_price>>
binaryvars == <<binarypayoffs, binaryoption>>
chooservars == <<sum1, sum2, chooser_option_price>>
rangevars == <<percentile_of_95, percentile_of_105>>
vars == <<run_all, pc, error, namespace, params, simvars, payoffs, asianvars,
          lookbackvars, barriervars, Basket_Option_price, binaryvars,
          chooservars, rangevars>>

Bound(name) == name \in namespace

(***************************************************************************)
(* Cell 1: path simulation.                                                *)
(***************************************************************************)
\* mutant: the Euler step 1 + x in place of exp(x)
StepRatio_Euler(r, s, step, z) ==
    LET drift == Mul(Sub(R(r), Div(R(s * s), R(2))), step)
        shock == Mul(Mul(R(s), R(z)), Sqrt(step))
    IN  Add(R(1), Add(drift, shock))

\* one entry of ratio_matrix
StepRatio(r, s, step, z) ==
    LET drift == Mul(Sub(R(r), Div(R(s * s), R(2))), step)
        shock == Mul(Mul(R(s), R(z)), Sqrt(step))
    IN  Exp(Add(drift, shock).n)

RatioMatrix(r, s, step, rnd) ==
    [i \in 1..Len(rnd) |-> [j \in 1..Len(rnd[i]) |-> StepRatio(r, s, step, rnd[i][j])]]

\* spot_price * np.cumprod(ratio_matrix, axis=1)
PricePaths(spot, ratios) ==
    [i \in 1..Len(ratios) |->
        LET cp == CumProd(ratios[i])
        IN  [j \in 1..Len(cp) |-> Mul(R(spot), cp[j])]]

\* np.exp(-risk_free_rate*Time)
Discount(r, T) == Exp(-(r * T))

\* the cell a completed cell hands over to
After(cell) ==
    IF ~run_all THEN "idle"
    ELSE IF cell = "range" THEN "done"
    ELSE Cells[(CHOOSE k \in 1..Len(Cells) : Cells[k] = cell) + 1]

Ready(cell) == IF run_all THEN pc = cell ELSE pc = "idle"

\* a cell that raises: Run All stops there
Raised == IF run_all THEN "error" ELSE pc

SimulateCell ==
    /\ pc = "simulate"
    /\ IF Time_steps = 0
       THEN \* dt = Time / Time_steps raises ZeroDivisionError
            /\ pc' = "error"
            /\ error' = "ZeroDivisionError"
            /\ UNCHANGED <<namespace, simvars>>
       ELSE \E rnd \in [1..simulations -> [1..Time_steps -> NormalDraws]] :
            /\ dt' = Div(R(Time), R(Time_steps))
            /\ random' = rnd
            /\ ratio_matrix' = RatioMatrix(risk_free_rate, sigma, dt', rnd)
            /\ prices' = PricePaths(spot_price, ratio_matrix')
            /\ namespace' = namespace \cup {"dt", "random", "ratio_matrix", "prices"}
            /\ pc' = After("simulate")
            /\ error' = "none"
    /\ UNCHANGED <<run_all, params, payoffs, asianvars, lookbackvars, barriervars,
                   Basket_Option_price, binaryvars, chooservars, rangevars>>

(***************************************************************************)
(* Cell 2: Asian call, with the variance and standard error of its price.  *)
(***************************************************************************)
\* np.maximum(0, np.mean(prices, axis=1) - strike_price)
AsianPayoffs(pr, K) ==
    [i \in 1..Len(pr) |-> Maximum(Zero, Sub(Mean(pr[i]), R(K)))]

\* np.mean(payoffs)*np.exp(-risk_free_rate*Time)
AsianPrice(pay, r, T) == Mul(Mean(pay), Discount(r, T))

\* np.power((payoffs - Asian_Option_call_price),2)
VarMatrix(pay, price) ==
    [i \in 1..Len(pay) |-> Mul(Sub(pay[i], price), Sub(pay[i], price))]

\* np.sum(var_matrix)/(simulations-1)
Variance(pay, price, N) == Div(Sum(VarMatrix(pay, price)), R(N - 1))

\* np.sqrt(variance/simulations)
StandardError(var, N) == Sqrt(Div(var, R(N)))

AsianCell ==
    /\ Ready("asian")
    /\ Bound("prices")
    /\ payoffs' = AsianPayoffs(prices, strike_price)
    /\ Asian_Option_call_price' = AsianPrice(payoffs', risk_free_rate, Time)
    /\ variance' = Variance(payoffs', Asian_Option_call_price', simulations)
    /\ standard_error' = StandardError(variance', simulations)
    /\ namespace' = namespace \cup {"payoffs", "Asian_Option_call_price", "variance",
                                    "standard_error"}
    /\ pc' = After("asian")
    /\ error' = "none"
    /\ UNCHANGED <<run_all, params, simvars, lookbackvars, barriervars,
                   Basket_Option_price, binaryvars, chooservars, rangevars>>

(***************************************************************************)
(* Cell 3: lookback call and put.                                          *)
(***************************************************************************)
\* mutant: the price at maturity in place of the maximum of the path
LookbackCallPayoffs_Terminal(pr, K) ==
    [i \in 1..Len(pr) |-> Maximum(Zero, Sub(Last(pr[i]), R(K)))]

\* np.maximum(0,np.amax(prices - strike_price, axis=1))
LookbackCallPayoffs(pr, K) ==
    [i \in 1..Len(pr) |->
        Maximum(Zero, Amax([j \in 1..Len(pr[i]) |-> Sub(pr[i][j], R(K))]))]

\* np.maximum(0,np.amax(strike_price - prices, axis=1))
LookbackPutPayoffs(pr, K) ==
    [i \in 1..Len(pr) |->
        Maximum(Zero, Amax([j \in 1..Len(pr[i]) |-> Sub(R(K), pr[i][j])]))]

\* np.sum(payoffs)/simulations, then *np.exp(-risk_free_rate*Time)
LookbackPrice(pay, N, r, T) == Mul(Div(Sum(pay), R(N)), Discount(r, T))

LookbackCell ==
    /\ Ready("lookback")
    /\ Bound("prices")
    /\ payoffs' = LookbackPutPayoffs(prices, strike_price)
    /\ lookbackpayoffofcall' =
           LookbackPrice(LookbackCallPayoffs(prices, strike_price), simulations,
                         risk_free_rate, Time)
    /\ lookbackpayoffofput' = LookbackPrice(payoffs', simulations, risk_free_rate, Time)
    /\ namespace' = namespace \cup {"payoffs", "lookbackpayoffofcall",
                                    "lookbackpayoffofput"}
    /\ pc' = After("lookback")
    /\ error' = "none"
    /\ UNCHANGED <<run_all, params, simvars, asianvars, barriervars,
                   Basket_Option_price, binaryvars, chooservars, rangevars>>

(***************************************************************************)
(* Cell 4: barrier (down-and-out) option.                                  *)
(***************************************************************************)
\* np.maximum(0, prices - Barrier_price)
BarrierPayoffs(pr, B) ==
    [i \in 1..Len(pr) |-> [j \in 1..Len(pr[i]) |-> Maximum(Zero, Sub(pr[i][j], R(B)))]]

\* np.where(np.prod(payoffs, axis=1)!=0)[0], the first k rows considered
RECURSIVE RowsUpTo(_, _)
RowsUpTo(pay, k) ==
    IF k = 0 THEN <<>>
    ELSE IF Prod(pay[k]) # Zero THEN Append(RowsUpTo(pay, k - 1), k)
    ELSE RowsUpTo(pay, k - 1)

\* mutant: only the final column decides whether a row is knocked out
RECURSIVE FinalRowsUpTo(_, _)
FinalRowsUpTo(pay, k) ==
    IF k = 0 THEN <<>>
    ELSE IF Last(pay[k]) # Zero THEN Append(FinalRowsUpTo(pay, k - 1), k)
    ELSE FinalRowsUpTo(pay, k - 1)

BarrierRows_FinalOnly(pay) == FinalRowsUpTo(pay, Len(pay))

BarrierRows(pay) == RowsUpTo(pay, Len(pay))

\* Barrier_total = 0; for i in Barrier_rows: Barrier_total += payoffs[i][-1]
RECURSIVE BarrierTotal(_, _)
BarrierTotal(pay, rows) ==
    IF rows = <<>> THEN Zero
    ELSE Add(BarrierTotal(pay, SubSeq(rows, 1, Len(rows) - 1)), Last(pay[rows[Len(rows)]]))

\* Barrier_total/simulations*np.exp(-risk_free_rate*Time)
BarrierPrice(total, N, r, T) == Mul(Div(total, R(N)), Discount(r, T))

\* mutant: the clamp written into prices itself (out=prices)
BarrierCell_InPlace ==
    /\ Ready("barrier")
    /\ Bound("prices")
    /\ \E B \in BarrierLevels :
        /\ Barrier_price' = B
        /\ payoffs' = BarrierPayoffs(prices, B)
        /\ prices' = BarrierPayoffs(prices, B)
    /\ Barrier_rows' = BarrierRows(payoffs')
    /\ Barrier_total' = BarrierTotal(payoffs', Barrier_rows')
    /\ IF simulations = 0
       THEN \* Barrier_total is the int 0: 0/0 raises ZeroDivisionError
            /\ UNCHANGED Barrier_option_price
            /\ namespace' = namespace \cup {"payoffs", "Barrier_price", "Barrier_rows",
                                            "Barrier_total"}
            /\ pc' = Raised
            /\ error' = "ZeroDivisionError"
       ELSE /\ Barrier_option_price' =
                   BarrierPrice(Barrier_total', simulations, risk_free_rate, Time)
            /\ namespace' = namespace \cup {"payoffs", "Barrier_price", "Barrier_rows",
                                            "Barrier_total", "Barrier_option_price"}
            /\ pc' = After("barrier")
            /\ error' = "none"
    /\ UNCHANGED <<run_all, params, dt, random, ratio_matrix, asianvars,
                   lookbackvars, Basket_Option_price, binaryvars, chooservars,
                   rangevars>>

BarrierCell ==
    /\ Ready("barrier")
    /\ Bound("prices")
    /\ \E B \in BarrierLevels :
        /\ Barrier_price' = B
        /\ payoffs' = BarrierPayoffs(prices, B)
    /\ Barrier_rows' = BarrierRows(payoffs')
    /\ Barrier_total' = BarrierTotal(payoffs', Barrier_rows')
    /\ IF simulations = 0
       THEN \* Barrier_total is the int 0: 0/0 raises ZeroDivisionError
            /\ UNCHANGED Barrier_option_price
            /\ namespace' = namespace \cup {"payoffs", "Barrier_price", "Barrier_rows",
                                            "Barrier_total"}
            /\ pc' = Raised
            /\ error' = "ZeroDivisionError"
       ELSE /\ Barrier_option_price' =
                   BarrierPrice(Barrier_total', simulations, risk_free_rate, Time)
            /\ namespace' = namespace \cup {"payoffs", "Barrier_price", "Barrier_rows",
                                            "Barrier_total", "Barrier_option_price"}
            /\ pc' = After("barrier")
            /\ error' = "none"
    /\ UNCHANGED <<run_all, params, simvars, asianvars, lookbackvars,
                   Basket_Option_price, binaryvars, chooservars, rangevars>>

(***************************************************************************)
(* Cell 5: basket of the Asian and the barrier option.                     *)
(***************************************************************************)
\* 0.5*Asian_Option_call_price + 0.5*Barrier_option_price
BasketPrice(asian, barrier) == Add(Mul(Norm(1, 2), asian), Mul(Norm(1, 2), barrier))

BasketCell ==
    /\ Ready("basket")
    /\ IF Bound("Asian_Option_call_price") /\ Bound("Barrier_option_price")
       THEN /\ Basket_Option_price' =
                   BasketPrice(Asian_Option_call_price, Barrier_option_price)
            /\ namespace' = namespace \cup {"Basket_Option_price"}
            /\ pc' = After("basket")
            /\ error' = "none"
       ELSE \* NameError: one of the two prices is not defined yet
            /\ UNCHANGED <<Basket_Option_price, namespace>>
            /\ pc' = Raised
            /\ error' = "NameError"
    /\ UNCHANGED <<run_all, params, simvars, payoffs, asianvars, lookbackvars,
                   barriervars, binaryvars, chooservars, rangevars>>

(***************************************************************************)
(* Cell 6: binary (cash-or-nothing) call.                                  *)
(***************************************************************************)
\* mutant: the textbook digital, on the price at maturity
BinaryRowPayoffs_Terminal(pr, K) ==
    [i \in 1..Len(pr) |-> Maximum(Zero, Sub(Last(pr[i]), R(K)))]

\* np.maximum(0, np.mean(prices, axis=1) - strike_price)
BinaryRowPayoffs(pr, K) ==
    [i \in 1..Len(pr) |-> Maximum(Zero, Sub(Mean(pr[i]), R(K)))]

\* np.count_nonzero(payoffs)/simulations
BinaryFraction(pay, N) == Div(R(CountNonzero(pay)), R(N))

\* binarypayoffs*np.exp(-risk_free_rate*Time)
BinaryPrice(fraction, r, T) == Mul(fraction, Discount(r, T))

BinaryCell ==
    /\ Ready("binary")
    /\ Bound("prices")
    /\ payoffs' = BinaryRowPayoffs(prices, strike_price)
    /\ IF simulations = 0
       THEN \* int / int: 0/0 raises ZeroDivisionError
            /\ UNCHANGED binaryvars
            /\ namespace' = namespace \cup {"payoffs"}
            /\ pc' = Raised
            /\ error' = "ZeroDivisionError"
       ELSE /\ binarypayoffs' = BinaryFraction(payoffs', simulations)
            /\ binaryoption' = BinaryPrice(binarypayoffs', risk_free_rate, Time)
            /\ namespace' = namespace \cup {"payoffs", "binarypayoffs", "binaryoption"}
            /\ pc' = After("binary")
            /\ error' = "none"
    /\ UNCHANGED <<run_all, params, simvars, asianvars, lookbackvars, barriervars,
                   Basket_Option_price, chooservars, rangevars>>

(***************************************************************************)
(* Cell 8: chooser option.                                                 *)
(***************************************************************************)
\* np.maximum(0, prices - strike_price)
ChooserCallPayoffs(pr, K) ==
    [i \in 1..Len(pr) |-> [j \in 1..Len(pr[i]) |-> Maximum(Zero, Sub(pr[i][j], R(K)))]]

\* np.maximum(0, strike_price - prices)
ChooserPutPayoffs(pr, K) ==
    [i \in 1..Len(pr) |-> [j \in 1..Len(pr[i]) |-> Maximum(Zero, Sub(R(K), pr[i][j]))]]

\* s = 0; for i in range(N): s += m[i][-1]
RECURSIVE LastColumnSum(_, _)
LastColumnSum(m, N) ==
    IF N = 0 THEN Zero ELSE Add(LastColumnSum(m, N - 1), Last(m[N]))

\* mutant: call or put chosen row by row (max(call, put) = call + put per row)
ChooserPrice_PerRow(s1, s2, N) == Div(Add(s1, s2), R(N))

\* np.maximum(sum1,sum2)/simulations
ChooserPrice(s1, s2, N) == Div(Maximum(s1, s2), R(N))

ChooserCell ==
    /\ Ready("chooser")
    /\ Bound("prices")
    /\ sum1' = LastColumnSum(ChooserCallPayoffs(prices, strike_price), simulations)
    /\ sum2' = LastColumnSum(ChooserPutPayoffs(prices, strike_price), simulations)
    /\ chooser_option_price' = ChooserPrice(sum1', sum2', simulations)
    /\ namespace' = namespace \cup {"sum1", "sum2", "chooser_option_price"}
    /\ IF simulations = 0
       THEN \* the loops never ran, sum1 is the int 0: the first print's
            \* sum1/simulations raises ZeroDivisionError after the three bindings
            /\ pc' = Raised
            /\ error' = "ZeroDivisionError"
       ELSE /\ pc' = After("chooser")
            /\ error' = "none"
    /\ UNCHANGED <<run_all, params, simvars, payoffs, asianvars, lookbackvars,
                   barriervars, Basket_Option_price, binaryvars, rangevars>>

(***************************************************************************)
(* Cell 9: range statistics.  The three np.percentile calls only print.    *)
(* percentileofscore is handed the matrix itself and answers per row, over *)
(* len(prices) = the number of rows (the recorded output is such a vector).*)
(***************************************************************************)
CountBelow(row, score) == Cardinality({j \in 1..Len(row) : Lt(row[j], score)})
CountAtMost(row, score) == Cardinality({j \in 1..Len(row) : Le(row[j], score)})

\* percentileofscore(prices, score), kind "rank"
\* len(prices) = 0 answers one nan, shaped like the score
PercentileOfScore(pr, score) ==
    IF Len(pr) = 0 THEN NaN
    ELSE [i \in 1..Len(pr) |->
            LET left == CountBelow(pr[i], R(score))
                right == CountAtMost(pr[i], R(score))
                plus1 == IF left < right THEN 1 ELSE 0
            IN  Mul(R(left + right + plus1), Div(R(50), R(Len(pr))))]

\* np.percentile of an empty matrix: nan with a warning, or an IndexError,
\* by the numpy release; of a non-empty one it only prints
PercentileRaises(N) == IF N = 0 THEN BOOLEAN ELSE {FALSE}

RangeCell ==
    /\ Ready("range")
    /\ Bound("prices")
    /\ \E raises \in PercentileRaises(simulations) :
        IF raises
        THEN /\ UNCHANGED <<rangevars, namespace>>
             /\ pc' = Raised
             /\ error' = "IndexError"
        ELSE /\ percentile_of_95' = PercentileOfScore(prices, LowScore)
             /\ percentile_of_105' = PercentileOfScore(prices, HighScore)
             /\ namespace' = namespace \cup {"percentile_of_95", "percentile_of_105"}
             /\ pc' = After("range")
             /\ error' = "none"
    /\ UNCHANGED <<run_all, params, simvars, payoffs, asianvars, lookbackvars,
                   barriervars, Basket_Option_price, binaryvars, chooservars>>

(***************************************************************************)
(* The notebook.                                                           *)
(***************************************************************************)
\* a fresh kernel: no global is bound; the parameter lines hold their values
Fresh ==
    /\ pc = "simulate"
    /\ error = "none"
    /\ namespace = {}
    /\ dt = Zero /\ random = <<>> /\ ratio_matrix = <<>> /\ prices = <<>>
    /\ payoffs = <<>>
    /\ Asian_Option_call_price = Zero /\ variance = Zero /\ standard_error = Zero
    /\ lookbackpayoffofcall = Zero /\ lookbackpayoffofput = Zero
    /\ Barrier_price = 0 /\ Barrier_rows = <<>> /\ Barrier_total = Zero
    /\ Barrier_option_price = Zero
    /\ Basket_Option_price = Zero
    /\ binarypayoffs = Zero /\ binaryoption = Zero
    /\ sum1 = Zero /\ sum2 = Zero /\ chooser_option_price = Zero
    /\ percentile_of_95 = <<>> /\ percentile_of_105 = <<>>

\* the parameter lines that hold a value the specification calls invalid
InvalidLines ==
    {name \in {"spot_price", "strike_price", "Time", "sigma", "simulations",
               "Time_steps"} :
        CASE name = "spot_price" -> spot_price <= 0
          [] name = "strike_price" -> strike_price <= 0
          [] name = "Time" -> Time <= 0
          [] name = "sigma" -> sigma < 0
          [] name = "simulations" -> simulations <= 0
          [] name = "Time_steps" -> Time_steps <= 0}

InvalidParameters == InvalidLines # {}

\* "Run All" under parameter lines of which at most one is invalid
Init ==
    /\ run_all = TRUE
    /\ spot_price \in SpotPrices
    /\ strike_price \in StrikePrices
    /\ Time \in Maturities
    /\ risk_free_rate \in Rates
    /\ sigma \in Sigmas
    /\ simulations \in SimulationCounts
    /\ Time_steps \in TimeStepCounts
    /\ OnGrid(Time, Time_steps)
    /\ Cardinality(InvalidLines) <= 1
    /\ Fresh

\* cells run one at a time, in any order, under valid market parameters;
\* the batch may be empty
InitInteractive ==
    /\ run_all = FALSE
    /\ spot_price = 8
    /\ strike_price = 6
    /\ Time_steps \in 1..MaxTimeSteps
    /\ Time = Time_steps
    /\ risk_free_rate = 2
    /\ sigma = 2
    /\ simulations \in {0, 1, 2}
    /\ Fresh

Next ==
    \/ SimulateCell
    \/ AsianCell
    \/ LookbackCell
    \/ BarrierCell
    \/ BasketCell
    \/ BinaryCell
    \/ ChooserCell
    \/ RangeCell

Spec == Init /\ [][Next]_vars

SpecInteractive == InitInteractive /\ [][Next]_vars

(***************************************************************************)
(* What the specification says of a price-path matrix, row by row.         *)
(***************************************************************************)
Rows == 1..Len(prices)
Discounted(x) == Mul(x, Discount(risk_free_rate, Time))
FinalPrice(i) == prices[i][Len(prices[i])]
Touches(i, B) == \E j \in 1..Len(prices[i]) : Le(prices[i][j], R(B))
\* what row i adds to the barrier total
BarrierContribution(i, B) ==
    IF Touches(i, B) THEN Zero ELSE Maximum(Zero, Sub(FinalPrice(i), R(B)))
CallAtMaturity(i) == Maximum(Zero, Sub(FinalPrice(i), R(strike_price)))
PutAtMaturity(i) == Maximum(Zero, Sub(R(strike_price), FinalPrice(i)))
MeanAbove(i) == Lt(R(strike_price), Mean(prices[i]))

(***************************************************************************)
(* C1.  Barrier evaluator: a row with some price <= the barrier level      *)
(* contributes 0, a row that stays strictly above it contributes its       *)
(* final-column value max(0, final price - barrier), and the barrier total *)
(* is the sum of these contributions.                                      *)
(***************************************************************************)
C1_BarrierKnockOut ==
    Bound("Barrier_total") =>
        /\ \A i \in Rows :
              (\E k \in 1..Len(Barrier_rows) : Barrier_rows[k] = i)
                  <=> ~Touches(i, Barrier_price)
        /\ Barrier_total = Sum([i \in Rows |-> BarrierContribution(i, Barrier_price)])

\* a knocked-out row that ends above the barrier, next to a surviving row
C1_Witness ==
    /\ Bound("Barrier_total")
    /\ \E i \in Rows : Touches(i, Barrier_price) /\ Lt(R(Barrier_price), FinalPrice(i))
    /\ \E i \in Rows : ~Touches(i, Barrier_price)
    /\ Lt(Zero, Barrier_total)

(***************************************************************************)
(* C2.  The variance computed on a payoff vector of N >= 2 identical       *)
(* values is exactly 0, for any rate and maturity.                         *)
(***************************************************************************)
C2_VarianceOfEqualPayoffs ==
    (/\ ~InvalidParameters
     /\ pc = "lookback"
     /\ simulations >= 2
     /\ \A i, j \in 1..Len(payoffs) : payoffs[i] = payoffs[j])
        => variance = Zero

(***************************************************************************)
(* C3.  Every variant priced from a payoff vector reports                  *)
(* mean(payoff vector) * exp(-r*T): Asian call, lookback call and put,     *)
(* barrier, binary and chooser; none reports an undiscounted mean.         *)
(***************************************************************************)
C3_EveryPriceDiscounted ==
    ~InvalidParameters =>
    /\ Bound("Asian_Option_call_price") =>
          Asian_Option_call_price = Discounted(Mean(AsianPayoffs(prices, strike_price)))
    /\ Bound("lookbackpayoffofcall") =>
          lookbackpayoffofcall =
              Discounted(Mean(LookbackCallPayoffs(prices, strike_price)))
    /\ Bound("lookbackpayoffofput") =>
          lookbackpayoffofput =
              Discounted(Mean(LookbackPutPayoffs(prices, strike_price)))
    /\ Bound("Barrier_option_price") =>
          Barrier_option_price =
              Discounted(Mean([i \in Rows |-> BarrierContribution(i, Barrier_price)]))
    /\ Bound("binaryoption") =>
          binaryoption =
              Discounted(Mean([i \in Rows |-> IF MeanAbove(i) THEN R(1) ELSE Zero]))
    /\ Bound("chooser_option_price") =>
          chooser_option_price =
              Discounted(Maximum(Mean([i \in Rows |-> CallAtMaturity(i)]),
                                 Mean([i \in Rows |-> PutAtMaturity(i)])))

(***************************************************************************)
(* C4.  Chooser evaluator: the price is max(sum of calls, sum of puts)/N   *)
(* over the final column, the choice made once for the whole batch: it is  *)
(* at least the call average and the put average, and at most the average  *)
(* of the per-row max(call, put).                                          *)
(***************************************************************************)
C4_ChooserBatchChoice ==
    Bound("chooser_option_price") =>
        LET calls == [i \in Rows |-> CallAtMaturity(i)]
            puts == [i \in Rows |-> PutAtMaturity(i)]
            best == [i \in Rows |-> Maximum(calls[i], puts[i])]
        IN  /\ chooser_option_price =
                   Div(Maximum(Sum(calls), Sum(puts)), R(simulations))
            /\ Le(Mean(calls), chooser_option_price)
            /\ Le(Mean(puts), chooser_option_price)
            /\ Le(chooser_option_price, Mean(best))

\* one row ends in the money as a call, another as a put
C4_Witness ==
    /\ Bound("chooser_option_price")
    /\ Lt(Zero, sum1)
    /\ Lt(Zero, sum2)
    /\ Lt(chooser_option_price,
          Mean([i \in Rows |-> Maximum(CallAtMaturity(i), PutAtMaturity(i))]))

(***************************************************************************)
(* C5.  Invalid parameters (spot, strike, maturity, N or M not positive,   *)
(* or a negative volatility) are rejected before any simulation runs: no   *)
(* random draw is taken and no price-path matrix or price is produced.     *)
(***************************************************************************)
C5_InvalidParametersRejected ==
    InvalidParameters =>
        /\ ~Bound("random")
        /\ ~Bound("prices")
        /\ ~Bound("Asian_Option_call_price")

(***************************************************************************)
(* C6.  For every row: 0 <= Asian call payoff max(0, mean(row) - strike)   *)
(* <= lookback call payoff, and the lookback call payoff as computed is    *)
(* max(0, max(row) - strike).                                              *)
(***************************************************************************)
C6_AsianBelowLookback ==
    Bound("lookbackpayoffofcall") =>
        \A i \in Rows :
            LET asian == AsianPayoffs(prices, strike_price)[i]
                lookback == LookbackCallPayoffs(prices, strike_price)[i]
            IN  /\ asian = Maximum(Zero, Sub(Mean(prices[i]), R(strike_price)))
                /\ Le(Zero, asian)
                /\ Le(asian, lookback)
                /\ lookback = Maximum(Zero, Sub(Amax(prices[i]), R(strike_price)))

\* a row whose mean is above the strike and below its maximum
C6_Witness ==
    /\ Bound("lookbackpayoffofcall")
    /\ \E i \in Rows :
          /\ Lt(Zero, AsianPayoffs(prices, strike_price)[i])
          /\ Lt(AsianPayoffs(prices, strike_price)[i],
                LookbackCallPayoffs(prices, strike_price)[i])

(***************************************************************************)
(* C7.  With fewer than 2 simulations the variance is undefined, and this  *)
(* is reported as a DegenerateSample error: no variance value comes out of *)
(* the division by N - 1.                                                  *)
(***************************************************************************)
C7_DegenerateSampleReported ==
    (/\ InvalidLines \subseteq {"simulations"}
     /\ simulations < 2
     /\ Bound("Asian_Option_call_price")) =>
        /\ ~Bound("variance")
        /\ error = "DegenerateSampleError"

(***************************************************************************)
(* C8.  Binary evaluator: a row pays 1 if mean(row) > strike and 0         *)
(* otherwise (0 when the mean equals the strike), so the undiscounted      *)
(* value is the number of rows with mean(row) > strike, divided by N.      *)
(***************************************************************************)
C8_BinaryCountsMeanAboveStrike ==
    Bound("binarypayoffs") =>
        binarypayoffs =
            Div(R(Cardinality({i \in Rows : MeanAbove(i)})), R(simulations))

\* one row's mean is the strike itself, another's is above it
C8_Witness ==
    /\ Bound("binarypayoffs")
    /\ \E i \in Rows : Mean(prices[i]) = R(strike_price)
    /\ \E i \in Rows : MeanAbove(i)
    /\ binarypayoffs = Norm(1, 2)

(***************************************************************************)
(* C9.  For valid parameters (spot > 0, volatility >= 0, N >= 1, M >= 1)   *)
(* every entry of the price-path matrix is strictly positive: each column  *)
(* is the previous price (the spot for the first column) times a strictly  *)
(* positive ratio, and the matrix has exactly M columns, none of them the  *)
(* initial spot.                                                           *)
(***************************************************************************)
C9_PricesPositive ==
    (/\ Bound("prices")
     /\ spot_price > 0 /\ sigma >= 0 /\ simulations >= 1 /\ Time_steps >= 1)
        => /\ Len(prices) = simulations
           /\ \A i \in Rows :
                 /\ Len(prices[i]) = Time_steps
                 /\ \A j \in 1..Time_steps :
                       /\ Lt(Zero, ratio_matrix[i][j])
                       /\ Lt(Zero, prices[i][j])
                       /\ prices[i][j] =
                              Mul(IF j = 1 THEN R(spot_price) ELSE prices[i][j - 1],
                                  ratio_matrix[i][j])

\* a path of several steps that falls below the spot at once
C9_Witness ==
    /\ Bound("prices")
    /\ spot_price > 0 /\ sigma > 0 /\ simulations >= 2 /\ Time_steps >= 2
    /\ \E i \in Rows : Lt(ratio_matrix[i][1], R(1)) /\ Lt(prices[i][1], R(spot_price))

(***************************************************************************)
(* C10.  Once the matrix is generated, running the evaluator cells in any  *)
(* order, any number of times, leaves the matrix and the parameters        *)
(* unchanged, and every evaluator's results are what it computes when run  *)
(* alone right after the simulation: none reads a value another left in    *)
(* payoffs.                                                                *)
(***************************************************************************)
ResultsAsWhenRunAlone ==
    LET K == strike_price
        r == risk_free_rate
        N == simulations
    IN  /\ Bound("Asian_Option_call_price") =>
              LET price == AsianPrice(AsianPayoffs(prices, K), r, Time)
                  var == Variance(AsianPayoffs(prices, K), price, N)
              IN  /\ Asian_Option_call_price = price
                  /\ variance = var
                  /\ standard_error = StandardError(var, N)
        /\ Bound("lookbackpayoffofcall") =>
              /\ lookbackpayoffofcall =
                     LookbackPrice(LookbackCallPayoffs(prices, K), N, r, Time)
              /\ lookbackpayoffofput =
                     LookbackPrice(LookbackPutPayoffs(prices, K), N, r, Time)
        /\ Bound("Barrier_option_price") =>
              LET pay == BarrierPayoffs(prices, Barrier_price)
              IN  Barrier_option_price =
                      BarrierPrice(BarrierTotal(pay, BarrierRows(pay)), N, r, Time)
        /\ Bound("binaryoption") =>
              binaryoption =
                  BinaryPrice(BinaryFraction(BinaryRowPayoffs(prices, K), N), r, Time)
        /\ Bound("chooser_option_price") =>
              chooser_option_price =
                  ChooserPrice(LastColumnSum(ChooserCallPayoffs(prices, K), N),
                               LastColumnSum(ChooserPutPayoffs(prices, K), N), N)
        /\ Bound("percentile_of_95") =>
              /\ percentile_of_95 = PercentileOfScore(prices, LowScore)
              /\ percentile_of_105 = PercentileOfScore(prices, HighScore)

C10_EvaluatorsIndependent ==
    /\ [](ResultsAsWhenRunAlone)
    /\ [][pc = "idle" => (prices' = prices /\ params' = params)]_vars

\* binary, chooser, barrier and range have run, Asian and lookback have not
C10_Witness ==
    /\ ~run_all
    /\ simulations = 2 /\ Time_steps = 2
    /\ Bound("binaryoption") /\ Bound("chooser_option_price")
    /\ Bound("Barrier_option_price") /\ Bound("percentile_of_95")
    /\ ~Bound("Asian_Option_call_price") /\ ~Bound("lookbackpayoffofcall")
    /\ Lt(Zero, Barrier_option_price)
    /\ Lt(Zero, binaryoption)
====
